---- MODULE Spec2Model ----
(***************************************************************************)
(* Multi-level feedback queue scheduler (mlfq_scheduler/src/mlfq.rs).      *)
(* The scheduler owns num_levels queues (Vec<Vec<Process>>), a quantum     *)
(* table and a clock.  Queue indices are 0-based as in the source; a queue *)
(* is a sequence whose last element is the top of the Vec (push appends,   *)
(* pop removes the last element).                                          *)
(***************************************************************************)
EXTENDS Integers, Sequences, FiniteSets, TLC

(* ------------------------------ bounds -------------------------------- *)
MaxLevels == 3          \* num_levels ranges over 1..MaxLevels
MaxQuantum == 1         \* each time_quanta[i] ranges over 0..MaxQuantum
MaxProcs == 3           \* number of processes the caller hands in
MaxRemaining == 2       \* remaining_time of a process handed in: 0..MaxRemaining
MaxInitExecuted == 0    \* total_executed_time of a process handed in
MaxTime == 120          \* the clock is explored up to this value

(* --------------------------- program constants ------------------------ *)
boost_interval == 100

(* ------------------------------- state -------------------------------- *)
VARIABLES
    num_levels,     \* MLFQ.num_levels
    time_quanta,    \* MLFQ.time_quanta, indexed 0..num_levels-1
    queues,         \* MLFQ.queues, indexed 0..num_levels-1
    current_time,   \* MLFQ.current_time
    next_id,        \* the caller's id counter (ids are caller-unique)
    dropped,        \* what is known of the processes execute_process let go of
    last,           \* the call that produced this state
    driver          \* main: where it stands, the processes it built, their runs

vars == <<num_levels, time_quanta, queues, current_time, next_id, dropped, last,
          driver>>

Levels == 0 .. (num_levels - 1)

(* struct Process *)
Process(id, priority, remaining_time, total_executed_time) ==
    [id |-> id, priority |-> priority, remaining_time |-> remaining_time,
     total_executed_time |-> total_executed_time]

NoProcess == Process(0, 0, 0, 0)

(* A process that execute_process does not queue again goes out of scope;  *)
(* its id and remaining time are what the execution log printed of it.     *)
Dropped(process) ==
    [id |-> process.id, remaining_time |-> process.remaining_time]

(* Vec::push and Vec::pop *)
push(v, x) == Append(v, x)

top_oldest(v) == v[1]

top(v) == v[Len(v)]

popped(v) == SubSeq(v, 1, Len(v) - 1)

(* Where the processes sit: a slot is <<queue index, position>>. *)
Slots(qs) == UNION {{<<t, i>> : i \in 1 .. Len(qs[t])} : t \in DOMAIN qs}

Held(qs) == {qs[s[1]][s[2]] : s \in Slots(qs)}

SlotsOf(qs, id) == {s \in Slots(qs) : qs[s[1]][s[2]].id = id}

(* The record of a call: its name, its argument (queue index, elapsed time *)
(* or the priority asked for), the process it handled as it left the call, *)
(* the time executed, what became of the process, how many boosts ran, and *)
(* the queues and the clock as the call found them.                        *)
Call(op, arg, process, executed_time, outcome, boosts) ==
    [op |-> op, arg |-> arg, process |-> process,
     executed_time |-> executed_time, outcome |-> outcome, boosts |-> boosts,
     queues |-> queues, current_time |-> current_time]

(* --------------------------- MLFQ::new -------------------------------- *)
new(n, quanta) ==
    /\ num_levels = n
    /\ time_quanta = quanta
    /\ queues = [i \in 0 .. (n - 1) |-> <<>>]
    /\ current_time = 0

(* main's own state: the phase it is in ("free" for a caller that follows *)
(* no pattern), the queue index of its for loop, the processes it built    *)
(* (by id) and the queue indices each of them was executed at.             *)
Driver(phase) ==
    [phase |-> phase, queue_index |-> 0, handed |-> <<>>, runs |-> <<>>]

Constructed ==
    /\ \E n \in 1 .. MaxLevels :
         \E quanta \in [0 .. (n - 1) -> 0 .. MaxQuantum] : new(n, quanta)
    /\ next_id = 1
    /\ dropped = {}
    /\ last = Call("new", 0, NoProcess, 0, "none", 0)

Init ==
    /\ Constructed
    /\ driver = Driver("free")

(* ------------------------- MLFQ::add_process -------------------------- *)
target_queue_top(priority) ==
    IF priority < num_levels THEN priority ELSE 0

target_queue(priority) ==
    IF priority < num_levels THEN priority ELSE num_levels - 1

add_process(process) ==
    /\ queues' = [queues EXCEPT ![target_queue(process.priority)] = push(@, process)]
    /\ last' = Call("add_process", process.priority, process, 0, "queued", 0)
    /\ UNCHANGED <<num_levels, time_quanta, current_time, dropped>>

(* The caller builds a Process with a fresh id and hands it over. *)
AddProcess ==
    /\ next_id <= MaxProcs
    /\ \E priority \in 0 .. num_levels :
         \E remaining_time \in 0 .. MaxRemaining :
           \E total_executed_time \in 0 .. MaxInitExecuted :
             add_process(Process(next_id, priority, remaining_time, total_executed_time))
    /\ next_id' = next_id + 1

(* ----------------------- MLFQ::execute_process ------------------------ *)
executed_time_whole_quantum(process, time_quantum) == time_quantum

executed_time_of(process, time_quantum) ==
    IF process.remaining_time > time_quantum
    THEN time_quantum
    ELSE process.remaining_time

run_unaccounted(process, executed_time) ==
    [process EXCEPT !.remaining_time = @ - executed_time]

run(process, executed_time) ==
    [process EXCEPT !.remaining_time = @ - executed_time,
                    !.total_executed_time = @ + executed_time]

(* The queues an executed process is pushed onto: the next one, or none. *)
requeue_in_place(process, queue_index) ==
    IF process.remaining_time > 0
    THEN IF queue_index + 1 < num_levels THEN {queue_index + 1} ELSE {queue_index}
    ELSE {}

requeue_above(process, queue_index) ==
    IF process.remaining_time > 0 /\ queue_index > 0
    THEN {queue_index - 1}
    ELSE {}

requeue_at(process, queue_index) ==
    IF process.remaining_time > 0
    THEN IF queue_index + 1 < num_levels THEN {queue_index + 1} ELSE {}
    ELSE {}

demote_keep_priority(process) == process

demote(process) == [process EXCEPT !.priority = @ + 1]

(* A clamped index: the call runs on the lowest queue instead of failing. *)
index_panic_clamped(queue_index) ==
    /\ queues' = [queues EXCEPT ![num_levels - 1] =
                     IF @ = <<>> THEN @ ELSE popped(@)]
    /\ last' = Call("execute_process", queue_index, NoProcess, 0, "empty", 0)
    /\ UNCHANGED <<num_levels, time_quanta, current_time, dropped>>

(* queues[queue_index] with queue_index out of range: the index panics. *)
index_panic(queue_index) ==
    /\ last' = Call("execute_process", queue_index, NoProcess, 0, "panic", 0)
    /\ UNCHANGED <<num_levels, time_quanta, queues, current_time, dropped>>

(* pop() returned None *)
execute_none_charged(queue_index) ==
    /\ current_time + time_quanta[queue_index] <= MaxTime
    /\ current_time' = current_time + time_quanta[queue_index]
    /\ last' = Call("execute_process", queue_index, NoProcess, 0, "empty", 0)
    /\ UNCHANGED <<num_levels, time_quanta, queues, dropped>>

execute_none(queue_index) ==
    /\ last' = Call("execute_process", queue_index, NoProcess, 0, "empty", 0)
    /\ UNCHANGED <<num_levels, time_quanta, queues, current_time, dropped>>

(* pop() returned Some(process) *)
execute_some(queue_index) ==
    LET time_quantum == time_quanta[queue_index]
        executed_time == executed_time_of(top(queues[queue_index]), time_quantum)
        process == run(top(queues[queue_index]), executed_time)
        rest == [queues EXCEPT ![queue_index] = popped(@)]
        at == requeue_at(process, queue_index)
    IN  /\ current_time + executed_time <= MaxTime
        /\ current_time' = current_time + executed_time
        /\ IF at # {}
           THEN /\ queues' = [t \in Levels |->
                                IF t \in at THEN push(rest[t], demote(process))
                                            ELSE rest[t]]
                /\ dropped' = dropped
                /\ last' = Call("execute_process", queue_index, demote(process),
                                executed_time, "demoted", 0)
           ELSE /\ queues' = rest
                /\ dropped' = dropped \cup {Dropped(process)}
                /\ last' = Call("execute_process", queue_index, process,
                                executed_time, "dropped", 0)
        /\ UNCHANGED <<num_levels, time_quanta>>

execute_process(queue_index) ==
    IF queue_index >= num_levels
    THEN index_panic(queue_index)
    ELSE IF queues[queue_index] = <<>>
         THEN execute_none(queue_index)
         ELSE execute_some(queue_index)

(* The caller passes a queue index; num_levels is the first one out of range. *)
ExecuteProcess ==
    /\ \E queue_index \in 0 .. num_levels : execute_process(queue_index)
    /\ UNCHANGED next_id

(* ------------------------ MLFQ::priority_boost ------------------------ *)
RECURSIVE drain_keep_priority(_, _)
drain_keep_priority(qs, queue_index) ==
    IF qs[queue_index] = <<>>
    THEN qs
    ELSE drain_keep_priority([qs EXCEPT ![queue_index] = popped(@),
                                        ![0] = push(@, top(qs[queue_index]))],
                             queue_index)

(* while let Some(process) = queues[queue_index].pop(): push onto queue 0 *)
RECURSIVE drain(_, _)
drain(qs, queue_index) ==
    IF qs[queue_index] = <<>>
    THEN qs
    ELSE LET process == [top(qs[queue_index]) EXCEPT !.priority = 0]
         IN  drain([qs EXCEPT ![queue_index] = popped(@),
                              ![0] = push(@, process)],
                   queue_index)

(* for queue_index in 1..num_levels *)
RECURSIVE boost_from(_, _)
boost_from(qs, queue_index) ==
    IF queue_index >= num_levels
    THEN qs
    ELSE boost_from(drain(qs, queue_index), queue_index + 1)

boosted_skipping_one(qs) == boost_from(qs, 2)

boosted(qs) == boost_from(qs, 1)

priority_boost ==
    /\ queues' = boosted(queues)
    /\ last' = Call("priority_boost", 0, NoProcess, 0, "none", 1)
    /\ UNCHANGED <<num_levels, time_quanta, current_time, dropped>>

PriorityBoost ==
    /\ priority_boost
    /\ UNCHANGED next_id

(* -------------------------- MLFQ::update_time ------------------------- *)
boost_due_from_interval(time) == time >= boost_interval

boost_due_after_start(time) == time > 0 /\ time % boost_interval = 0

boost_due(time) == time % boost_interval = 0

update_time_set(elapsed_time) ==
    /\ current_time' = elapsed_time
    /\ IF boost_due(current_time')
       THEN /\ queues' = boosted(queues)
            /\ last' = Call("update_time", elapsed_time, NoProcess, 0, "none", 1)
       ELSE /\ queues' = queues
            /\ last' = Call("update_time", elapsed_time, NoProcess, 0, "none", 0)
    /\ UNCHANGED <<num_levels, time_quanta, dropped>>

update_time(elapsed_time) ==
    /\ current_time + elapsed_time <= MaxTime
    /\ current_time' = current_time + elapsed_time
    /\ IF boost_due(current_time')
       THEN /\ queues' = boosted(queues)
            /\ last' = Call("update_time", elapsed_time, NoProcess, 0, "none", 1)
       ELSE /\ queues' = queues
            /\ last' = Call("update_time", elapsed_time, NoProcess, 0, "none", 0)
    /\ UNCHANGED <<num_levels, time_quanta, dropped>>

(* Elapsed times the caller passes: nothing, half an interval, the step    *)
(* that ends on the next multiple of the interval (a whole interval when   *)
(* the clock stands on a multiple) and the step that ends one short of it. *)
ElapsedInputs ==
    {0, 50, boost_interval - (current_time % boost_interval),
     boost_interval - 1 - (current_time % boost_interval)}

UpdateTime ==
    /\ \E elapsed_time \in ElapsedInputs : update_time(elapsed_time)
    /\ UNCHANGED next_id

(* ------------------------------ behaviour ----------------------------- *)
(* A panic ends the program: no call follows it. *)
Running == last.outcome # "panic"

Next ==
    \/ Running /\ AddProcess /\ UNCHANGED driver
    \/ Running /\ ExecuteProcess /\ UNCHANGED driver
    \/ Running /\ PriorityBoost /\ UNCHANGED driver
    \/ Running /\ UpdateTime /\ UNCHANGED driver

Spec == Init /\ [][Next]_vars

(* ------------------------------- main ---------------------------------- *)
(* main builds its processes and adds them, drains the queues in index     *)
(* order, each until it is empty, and then advances the clock by 100.      *)
DrainInit ==
    /\ Constructed
    /\ driver = Driver("add")

(* scheduler.add_process(mlfq::Process { .. }) *)
DriverAdd ==
    /\ driver.phase = "add"
    /\ AddProcess
    /\ driver' = [driver EXCEPT !.handed = Append(@, last'.process),
                                !.runs = Append(@, <<>>)]

(* for queue_index in 0..scheduler.num_levels *)
DriverStartDrain ==
    /\ driver.phase = "add"
    /\ driver' = [driver EXCEPT !.phase = "drain"]
    /\ UNCHANGED <<num_levels, time_quanta, queues, current_time, next_id,
                   dropped, last>>

(* while !scheduler.queues[queue_index].is_empty(): execute_process *)
DriverExecute ==
    /\ driver.phase = "drain"
    /\ driver.queue_index < num_levels
    /\ queues[driver.queue_index] # <<>>
    /\ execute_process(driver.queue_index)
    /\ driver' = [driver EXCEPT
                    !.runs[last'.process.id] = Append(@, driver.queue_index)]
    /\ UNCHANGED next_id

(* the while loop ends: the for loop takes the next queue index *)
DriverNextQueue ==
    /\ driver.phase = "drain"
    /\ driver.queue_index < num_levels
    /\ queues[driver.queue_index] = <<>>
    /\ driver' = [driver EXCEPT !.queue_index = @ + 1]
    /\ UNCHANGED <<num_levels, time_quanta, queues, current_time, next_id,
                   dropped, last>>

(* scheduler.update_time(100) *)
DriverUpdateTime ==
    /\ driver.phase = "drain"
    /\ driver.queue_index = num_levels
    /\ update_time(100)
    /\ driver' = [driver EXCEPT !.phase = "done"]
    /\ UNCHANGED next_id

DrainNext ==
    \/ DriverAdd
    \/ DriverStartDrain
    \/ DriverExecute
    \/ DriverNextQueue
    \/ DriverUpdateTime

(* main is one thread that runs on while it has a statement to run. *)
DrainSpec == DrainInit /\ [][DrainNext]_vars /\ WF_vars(DrainNext)

(* ------------------------------ properties ---------------------------- *)
(* The process the last execute_process call took from its queue, as it    *)
(* stood in that queue before the call.                                    *)
Selected == CHOOSE p \in Held(last.queues) : p.id = last.process.id

(* The last call was execute_process on a valid queue that held a process. *)
Dispatched ==
    /\ last.op = "execute_process"
    /\ last.arg \in Levels
    /\ last.queues[last.arg] # <<>>

Ids(qs) == {p.id : p \in Held(qs)}

(* C1: add_process appends the process at the tail of queue `priority`     *)
(* when priority < num_levels and at the tail of queue num_levels-1        *)
(* otherwise; the occupants of that queue keep their order, every other    *)
(* queue is unchanged and current_time is unchanged.                        *)
C1_AddProcessAppends ==
    last.op = "add_process" =>
        LET t == IF last.arg < num_levels THEN last.arg ELSE num_levels - 1
        IN  /\ last.process.priority = last.arg
            /\ queues[t] = Append(last.queues[t], last.process)
            /\ \A u \in Levels \ {t} : queues[u] = last.queues[u]
            /\ current_time = last.current_time

C1_Witness ==
    /\ last.op = "add_process"
    /\ last.arg >= num_levels
    /\ num_levels >= 2
    /\ Len(last.queues[num_levels - 1]) >= 2
    /\ Len(queues[num_levels - 1]) = 3

(* C2: for t < num_levels-1, execute_process(t) on a process with          *)
(* remaining_time > time_quanta[t] reduces its remaining_time by exactly   *)
(* time_quanta[t], removes it from queue t, appends it to queue t+1 and    *)
(* sets its priority field to t+1.                                         *)
C2_Demotion ==
    (Dispatched /\ last.arg < num_levels - 1
                /\ Selected.remaining_time > time_quanta[last.arg]) =>
        LET t == last.arg
            n == Len(queues[t + 1])
        IN  /\ n = Len(last.queues[t + 1]) + 1
            /\ SubSeq(queues[t + 1], 1, n - 1) = last.queues[t + 1]
            /\ queues[t + 1][n].id = Selected.id
            /\ queues[t + 1][n].remaining_time
                 = Selected.remaining_time - time_quanta[t]
            /\ queues[t + 1][n].priority = t + 1
            /\ SlotsOf(queues, Selected.id) = {<<t + 1, n>>}

C2_Witness ==
    /\ Dispatched
    /\ last.arg < num_levels - 1
    /\ Selected.remaining_time > time_quanta[last.arg]
    /\ time_quanta[last.arg] > 0
    /\ last.queues[last.arg + 1] # <<>>
    /\ Len(queues[last.arg + 1]) >= 2

(* C3: for every t, execute_process(t) on a process with remaining_time <= *)
(* time_quanta[t] consumes it in that call: its remaining_time becomes 0   *)
(* and afterwards it is in no queue.                                       *)
C3_Finish ==
    (Dispatched /\ Selected.remaining_time <= time_quanta[last.arg]) =>
        /\ last.process.id = Selected.id
        /\ last.process.remaining_time = 0
        /\ SlotsOf(queues, Selected.id) = {}

C3_Witness ==
    /\ Dispatched
    /\ last.arg < num_levels - 1
    /\ Selected.remaining_time > 0
    /\ Selected.remaining_time <= time_quanta[last.arg]
    /\ last.process.remaining_time = 0
    /\ SlotsOf(queues, Selected.id) = {}

(* C4: conservation of work: a process held in a queue before and after a  *)
(* call has the same remaining_time + total_executed_time on both sides of *)
(* the call, and add_process queues the process with the sum it came with. *)
Work(p) == p.remaining_time + p.total_executed_time

C4_Conservation ==
    /\ \A p \in Held(queues) : \A b \in Held(last.queues) :
         p.id = b.id => Work(p) = Work(b)
    /\ last.op = "add_process" =>
         \E p \in Held(queues) : p.id = last.process.id /\ Work(p) = Work(last.process)

C4_Witness ==
    /\ Dispatched
    /\ last.executed_time > 0
    /\ \E p \in Held(queues) :
         /\ p.id = Selected.id
         /\ p.total_executed_time >= 1
         /\ p.remaining_time < Selected.remaining_time

(* C5: priority_boost leaves queues 1..num_levels-1 empty and holds as     *)
(* many processes after the call as before it: queue 0 ends up holding     *)
(* every process that was in any queue.                                    *)
C5_Boost ==
    last.boosts = 1 =>
        /\ \A t \in Levels \ {0} : queues[t] = <<>>
        /\ Cardinality(Slots(queues)) = Cardinality(Slots(last.queues))
        /\ Len(queues[0]) = Cardinality(Slots(last.queues))
        /\ {queues[0][i].id : i \in 1 .. Len(queues[0])} = Ids(last.queues)

C5_Witness ==
    /\ last.op = "priority_boost"
    /\ num_levels = 3
    /\ last.queues[0] # <<>>
    /\ last.queues[1] # <<>>
    /\ last.queues[2] # <<>>
    /\ Len(queues[0]) = 3

(* C6: update_time(e) performs exactly one priority_boost if               *)
(* (current_time before the call + e) % 100 = 0, and otherwise performs no *)
(* boost and leaves every queue exactly as it was.                         *)
C6_UpdateTimeBoost ==
    last.op = "update_time" =>
        IF (last.current_time + last.arg) % 100 = 0
        THEN /\ last.boosts = 1
             /\ \A t \in Levels \ {0} : queues[t] = <<>>
             /\ Len(queues[0]) = Cardinality(Slots(last.queues))
             /\ {queues[0][i].id : i \in 1 .. Len(queues[0])} = Ids(last.queues)
        ELSE /\ last.boosts = 0
             /\ queues = last.queues

C6_Witness ==
    /\ last.op = "update_time"
    /\ last.current_time % 100 # 0
    /\ (last.current_time + last.arg) % 100 = 0
    /\ \E t \in Levels \ {0} : last.queues[t] # <<>>
    /\ \A t \in Levels \ {0} : queues[t] = <<>>

(* C7: dispatch within a queue is LIFO: execute_process(t) on a non-empty  *)
(* queue selects the process most recently appended to queue t, and the    *)
(* other occupants of queue t keep their relative order.                   *)
C7_LIFO ==
    Dispatched =>
        LET before == last.queues[last.arg]
        IN  /\ last.process.id = before[Len(before)].id
            /\ queues[last.arg] = SubSeq(before, 1, Len(before) - 1)

C7_Witness ==
    /\ Dispatched
    /\ Len(last.queues[last.arg]) = 3
    /\ Len(queues[last.arg]) = 2
    /\ \E i \in 1 .. 2 : last.queues[last.arg][i].id > last.process.id

(* C8: when execute_process(num_levels-1) runs a process that still has    *)
(* remaining_time > 0 after its quantum, the process is not queued again:  *)
(* afterwards it is in no queue, although it is unfinished.                *)
C8_LowestTierDrop ==
    (Dispatched /\ last.arg = num_levels - 1
                /\ Selected.remaining_time > time_quanta[last.arg]) =>
        /\ last.process.id = Selected.id
        /\ last.process.remaining_time > 0
        /\ SlotsOf(queues, Selected.id) = {}
        /\ Cardinality(Slots(queues)) = Cardinality(Slots(last.queues)) - 1

C8_Witness ==
    /\ Dispatched
    /\ last.arg = num_levels - 1
    /\ num_levels >= 2
    /\ time_quanta[last.arg] > 0
    /\ Selected.remaining_time > time_quanta[last.arg]
    /\ SlotsOf(queues, Selected.id) = {}

(* C9: execute_process(t) with a valid t whose queue is empty is a no-op:  *)
(* no error is raised, and every queue, every process field and            *)
(* current_time are unchanged.                                             *)
C9_EmptyNoOp ==
    (last.op = "execute_process" /\ last.arg \in Levels
                                 /\ last.queues[last.arg] = <<>>) =>
        /\ last.outcome = "empty"
        /\ queues = last.queues
        /\ current_time = last.current_time

C9_Witness ==
    /\ last.op = "execute_process"
    /\ last.arg \in Levels
    /\ last.queues[last.arg] = <<>>
    /\ time_quanta[last.arg] > 0
    /\ Held(queues) # {}
    /\ last.outcome = "empty"

(* C10: every process handed to the scheduler is held in exactly one queue *)
(* slot, or in none if it is finished (remaining_time = 0); it is never    *)
(* held in two queues or twice in one queue.                               *)
C10_OneTierOrFinished ==
    \A id \in 1 .. (next_id - 1) :
        \/ Cardinality(SlotsOf(queues, id)) = 1
        \/ /\ SlotsOf(queues, id) = {}
           /\ \E d \in dropped : d.id = id /\ d.remaining_time = 0

(* C11: no queue holds a process whose remaining_time is 0: a process is   *)
(* never queued, or queued again, once its remaining_time is 0.            *)
C11_NoFinishedHeld ==
    \A p \in Held(queues) : p.remaining_time > 0

(* C12 as stated: on every dispatch the remaining_time of the process      *)
(* strictly decreases by the amount executed and never goes negative, for  *)
(* every quantum table of non-negative entries.                            *)
C12_StrictDecrease ==
    Dispatched =>
        /\ last.process.remaining_time = Selected.remaining_time - last.executed_time
        /\ last.process.remaining_time < Selected.remaining_time
        /\ last.process.remaining_time >= 0

(* C12 as amended: on every dispatch the remaining_time of the process     *)
(* decreases by exactly the amount executed, which is the smaller of its   *)
(* remaining_time and time_quanta[t], and never goes negative; the         *)
(* decrease is strict exactly when time_quanta[t] > 0 and the process had  *)
(* remaining_time > 0.                                                     *)
C12_Decrease ==
    Dispatched =>
        LET q == time_quanta[last.arg]
            r == Selected.remaining_time
        IN  /\ last.executed_time = IF r < q THEN r ELSE q
            /\ last.process.remaining_time = r - last.executed_time
            /\ last.process.remaining_time >= 0
            /\ (last.process.remaining_time < r) <=> (q > 0 /\ r > 0)

C12_Witness ==
    /\ Dispatched
    /\ time_quanta[last.arg] > 0
    /\ Selected.remaining_time > time_quanta[last.arg]
    /\ last.process.remaining_time > 0
    /\ last.process.remaining_time < Selected.remaining_time

(* C13: the priority field of every process held in a queue equals the     *)
(* index of the queue that holds it.                                       *)
C13_PriorityIsQueueIndex ==
    \A s \in Slots(queues) : queues[s[1]][s[2]].priority = s[1]

(* C14: execute_process with a queue index outside 0..num_levels-1 fails   *)
(* with an index-out-of-bounds panic and never clamps the index; the       *)
(* failing call changes no queue, no process field and not current_time.   *)
C14_IndexPanic ==
    (last.op = "execute_process" /\ last.arg \notin Levels) =>
        /\ last.outcome = "panic"
        /\ queues = last.queues
        /\ current_time = last.current_time

C14_Witness ==
    /\ last.op = "execute_process"
    /\ last.arg = num_levels
    /\ last.outcome = "panic"
    /\ queues[num_levels - 1] # <<>>

(* C15: boosting is idempotent: update_time(0) with current_time on a      *)
(* multiple of 100 (the initial 0 included) boosts again, a boost of       *)
(* queues whose queues 1..num_levels-1 are empty changes nothing, and a    *)
(* second boost right after a boost changes nothing.                       *)
C15_BoostIdempotent ==
    /\ (last.op = "update_time" /\ last.arg = 0 /\ last.current_time % 100 = 0)
         => last.boosts = 1
    /\ (last.boosts = 1 /\ \A t \in Levels \ {0} : last.queues[t] = <<>>)
         => queues = last.queues
    /\ last.boosts = 1 => boosted(queues) = queues

C15_Witness ==
    /\ last.op = "update_time"
    /\ last.arg = 0
    /\ last.current_time = 100
    /\ last.boosts = 1
    /\ Len(last.queues[0]) >= 2
    /\ queues = last.queues

(* C16: priority_boost leaves the processes of queue 0 as they are, at the *)
(* front of queue 0 and in order, changes no remaining_time and no         *)
(* total_executed_time, leaves current_time unchanged and sets the         *)
(* priority field of every process it moves to 0.                          *)
C16_BoostFrame ==
    last.boosts = 1 =>
        LET n == Len(last.queues[0])
        IN  /\ Len(queues[0]) >= n
            /\ SubSeq(queues[0], 1, n) = last.queues[0]
            /\ \A i \in (n + 1) .. Len(queues[0]) : queues[0][i].priority = 0
            /\ \A p \in Held(queues) :
                 \E b \in Held(last.queues) :
                    /\ b.id = p.id
                    /\ b.remaining_time = p.remaining_time
                    /\ b.total_executed_time = p.total_executed_time
            /\ last.op = "priority_boost" => current_time = last.current_time

C16_Witness ==
    /\ last.op = "priority_boost"
    /\ last.queues[0] # <<>>
    /\ \E s \in Slots(last.queues) :
         s[1] > 0 /\ last.queues[s[1]][s[2]].priority > 0
                  /\ last.queues[s[1]][s[2]].total_executed_time > 0
    /\ Len(queues[0]) > Len(last.queues[0])

(* C17: current_time starts at 0 and never decreases: execute_process on a *)
(* non-empty queue t adds exactly min(remaining_time, time_quanta[t]) of   *)
(* the selected process, update_time(e) adds exactly e, add_process and    *)
(* priority_boost leave it unchanged.                                      *)
C17_Clock ==
    /\ current_time >= last.current_time
    /\ last.current_time >= 0
    /\ last.op = "new" => current_time = 0
    /\ Dispatched =>
         current_time = last.current_time +
            (IF Selected.remaining_time < time_quanta[last.arg]
             THEN Selected.remaining_time ELSE time_quanta[last.arg])
    /\ last.op = "update_time" => current_time = last.current_time + last.arg
    /\ last.op \in {"add_process", "priority_boost"} =>
         current_time = last.current_time

C17_Witness ==
    /\ Dispatched
    /\ last.current_time >= 50
    /\ current_time = last.current_time + 1
    /\ Selected.remaining_time = 2

(* C20: execute_process never boosts: it moves no process to a queue of    *)
(* lower index, also when it makes current_time land on or pass a multiple *)
(* of 100.  A process moves to a queue of lower index only in a            *)
(* priority_boost, and update_time runs one only when it ends exactly on a *)
(* multiple of 100: an update_time that ends elsewhere leaves the queues   *)
(* as they are, whatever multiples were passed before.                     *)
MovedUp ==
    \E s \in Slots(queues) : \E b \in Slots(last.queues) :
        /\ queues[s[1]][s[2]].id = last.queues[b[1]][b[2]].id
        /\ s[1] < b[1]

C20_OnlyBoostPromotes ==
    /\ last.op = "execute_process" => (~MovedUp /\ last.boosts = 0)
    /\ MovedUp =>
         /\ last.boosts = 1
         /\ \/ last.op = "priority_boost"
            \/ last.op = "update_time" /\ current_time % 100 = 0
    /\ (last.op = "update_time" /\ current_time % 100 # 0) =>
         (last.boosts = 0 /\ queues = last.queues)

C20_Witness ==
    /\ Dispatched
    /\ last.current_time = 99
    /\ current_time = 100
    /\ \E t \in Levels \ {0} : queues[t] # <<>>

(* C18: the drain pattern of main terminates.  Each execute_process(t) on *)
(* a non-empty queue shrinks queue t by exactly one process and adds no    *)
(* process to a queue of index <= t, a queue main has drained stays empty, *)
(* and main reaches its end, with every queue empty, for every population  *)
(* and every quantum table (quanta of 0 included).                         *)
C18_Step ==
    /\ Dispatched =>
         /\ Len(queues[last.arg]) = Len(last.queues[last.arg]) - 1
         /\ \A u \in 0 .. last.arg : Len(queues[u]) <= Len(last.queues[u])
    /\ \A u \in Levels : u < driver.queue_index => queues[u] = <<>>

C18_Done ==
    /\ driver.phase = "done"
    /\ \A u \in Levels : queues[u] = <<>>

C18_DrainTerminates == []C18_Step /\ <>C18_Done

C18_Witness ==
    /\ C18_Done
    /\ num_levels = 3
    /\ Len(driver.handed) = 3
    /\ \E t \in Levels : time_quanta[t] = 0
    /\ \E id \in 1 .. 3 : Len(driver.runs[id]) = 3
    /\ \E d \in dropped : d.remaining_time > 0

(* C19: under the drain pattern, with no boost during the run, a process   *)
(* that starts in queue s is dispatched at most once in each queue, in     *)
(* s, s+1, .. order; it finishes if and only if its initial remaining_time *)
(* r <= time_quanta[s] + ... + time_quanta[num_levels-1], and otherwise    *)
(* leaves the scheduler unfinished, having executed exactly that sum.      *)
RECURSIVE SumQuanta(_, _)
SumQuanta(from, to) ==
    IF from > to THEN 0 ELSE time_quanta[from] + SumQuanta(from + 1, to)

StartQueue(h) ==
    IF h.priority < num_levels THEN h.priority ELSE num_levels - 1

C19_DrainOutcome ==
    \A id \in 1 .. Len(driver.handed) :
        LET h == driver.handed[id]
            s == StartQueue(h)
            whole == SumQuanta(s, num_levels - 1)
        IN  /\ \A i \in 1 .. Len(driver.runs[id]) : driver.runs[id][i] = s + i - 1
            /\ \A d \in dropped :
                 d.id = id => ((d.remaining_time = 0) <=> (h.remaining_time <= whole))
            /\ (Dispatched /\ last.process.id = id /\ SlotsOf(queues, id) = {}
                           /\ last.process.remaining_time > 0) =>
                 /\ h.remaining_time > whole
                 /\ last.process.total_executed_time = h.total_executed_time + whole
                 /\ last.process.remaining_time = h.remaining_time - whole
            /\ driver.phase = "done" => \E d \in dropped : d.id = id

C19_Witness ==
    /\ driver.phase = "done"
    /\ num_levels = 3
    /\ \E id \in 1 .. Len(driver.handed) :
         /\ Len(driver.runs[id]) = 3
         /\ driver.handed[id].remaining_time = 2
         /\ \E d \in dropped : d.id = id /\ d.remaining_time = 0
    /\ \E id \in 1 .. Len(driver.handed) :
         /\ Len(driver.runs[id]) = 2
         /\ \E d \in dropped : d.id = id /\ d.remaining_time > 0

====
